---- MODULE Spec2Model ----
(***************************************************************************)
(* Model of src/services/balancingAlgorithm.ts: the allocation engine that *)
(* packs meters into breakers and breakers into transformers.              *)
(*                                                                         *)
(* Units.  Every load (cdl, breaker load, assignedLoad, totalLoad) is held *)
(* in half-amperes, i.e. the model value is twice the program value, so    *)
(* that `meter.cdl / 2` (line 127) is exact in the integers.  Ampere       *)
(* constants of the program are converted with Amp(_) where they meet a    *)
(* load.  Input demand loads are whole amperes, for which the program's    *)
(* floating-point sums are exact.                                          *)
(*                                                                         *)
(* transformer ids: every id handed out at lines 219 and 347 is            *)
(* overwritten at line 371 by the position in the result list, so a        *)
(* transformer's id is its position in the sequences below and the         *)
(* counters transformerId / transformerIdCounter are not state.            *)
(***************************************************************************)
EXTENDS Integers, Sequences, FiniteSets, TLC

\* ---- bounds of the model ------------------------------------------------
MaxGroups == 2
MaxCount == 2
MaxPool == 6

\* ---- configuration imported from '../constants' (line 2) ----------------
MAX_BREAKER_CAPACITY == 248

TRANSFORMER_TYPES ==
    << [capacity |-> 300,  safeLoad |-> 240,  breakers |-> 2],
       [capacity |-> 1000, safeLoad |-> 800,  breakers |-> 4],
       [capacity |-> 1500, safeLoad |-> 1200, breakers |-> 6] >>

Amp(a) == 2 * a

\* ---- inputs -------------------------------------------------------------
\* The kinds of load group the inputs are drawn from: capacity class,
\* per-unit demand in amperes, category and time pattern.
GroupKinds ==
    { [capacity |-> 100,  cdlPerMeter |-> 40,   category |-> "res", timePattern |-> "day"],
      [capacity |-> 200,  cdlPerMeter |-> 150,  category |-> "com", timePattern |-> "night"],
      [capacity |-> 300,  cdlPerMeter |-> 300,  category |-> "com", timePattern |-> "day"],
      [capacity |-> 100,  cdlPerMeter |-> 0,    category |-> "res", timePattern |-> "day"],
      [capacity |-> 800,  cdlPerMeter |-> 400,  category |-> "com", timePattern |-> "day"],
      [capacity |-> 400,  cdlPerMeter |-> 45,   category |-> "res", timePattern |-> "night"],
      [capacity |-> 800,  cdlPerMeter |-> 600,  category |-> "com", timePattern |-> "day"],
      [capacity |-> 400,  cdlPerMeter |-> 0,    category |-> "res", timePattern |-> "day"],
      [capacity |-> 800,  cdlPerMeter |-> 700,  category |-> "ind", timePattern |-> "day"],
      [capacity |-> 800,  cdlPerMeter |-> 450,  category |-> "com", timePattern |-> "night"],
      [capacity |-> 1600, cdlPerMeter |-> 1000, category |-> "ind", timePattern |-> "day"],
      [capacity |-> 2500, cdlPerMeter |-> 1500, category |-> "ind", timePattern |-> "day"],
      [capacity |-> 2000, cdlPerMeter |-> 1300, category |-> "ind", timePattern |-> "day"] }

\* A MeterGroup: a kind, a repeat count, and totalCDL = count x cdlPerMeter.
MeterGroup(k, c) ==
    [capacity |-> k.capacity, count |-> c, cdlPerMeter |-> Amp(k.cdlPerMeter),
     totalCDL |-> c * Amp(k.cdlPerMeter),
     category |-> k.category, timePattern |-> k.timePattern]

MeterGroups == { MeterGroup(k, c) : k \in GroupKinds, c \in 1..MaxCount }

GroupSeqs == UNION { [1..n -> MeterGroups] : n \in 0..MaxGroups }

\* ---- sequence helpers ---------------------------------------------------
Min(a, b) == IF a <= b THEN a ELSE b
Max(a, b) == IF a >= b THEN a ELSE b
Abs(x) == IF x >= 0 THEN x ELSE 0 - x

RECURSIVE SumCdl(_)
\* meters.reduce((sum, m) => sum + m.cdl, 0)
SumCdl(ms) == IF ms = <<>> THEN 0 ELSE Head(ms).cdl + SumCdl(Tail(ms))

\* [...meters].sort((a, b) => b.cdl - a.cdl): a stable sort, descending cdl.
\* Unit j comes before unit k when it is larger, or equal and earlier.
SortsBefore(s, j, k) == s[j].cdl > s[k].cdl \/ (s[j].cdl = s[k].cdl /\ j < k)

SortDesc(s) ==
    [p \in 1..Len(s) |->
        s[CHOOSE k \in 1..Len(s) :
              Cardinality({ j \in 1..Len(s) : SortsBefore(s, j, k) }) + 1 = p]]

RECURSIVE Flatten(_)
Flatten(ss) == IF ss = <<>> THEN <<>> ELSE Head(ss) \o Flatten(Tail(ss))

\* ---- unit expansion (lines 319-325) ---------------------------------------
\* id `${group.id}_${i}`: the group's position g and the index i; p is the
\* suffix added by a split (0 none, 1 "_p1", 2 "_p2").
ExpandGroup(groups, g) ==
    [i \in 1..groups[g].count |->
        [id |-> [g |-> g, i |-> i - 1, p |-> 0],
         capacity |-> groups[g].capacity,
         cdl |-> groups[g].cdlPerMeter,
         category |-> groups[g].category,
         timePattern |-> groups[g].timePattern,
         note |-> ""]]

ExpandMeters(groups) == Flatten([g \in 1..Len(groups) |-> ExpandGroup(groups, g)])

\* ---- breakers -----------------------------------------------------------
\* utilizationPercent is the exact fraction n / d (in percent).
updateBreakerStats(b) ==
    LET load == SumCdl(b.meters)
        maxCapacity ==
            IF b.dedicated /\ Len(b.meters) = 1
            THEN IF b.meters[1].capacity = 1600 \/ b.meters[1].capacity = 2500
                 THEN b.meters[1].capacity
                 ELSE 310
            ELSE 310
    IN  [b EXCEPT !.load = load,
                  !.utilizationPercent = [n |-> load * 100, d |-> Amp(maxCapacity)],
                  !.categories = { b.meters[k].category : k \in 1..Len(b.meters) },
                  !.timePatterns = { b.meters[k].timePattern : k \in 1..Len(b.meters) }]

\* addMeterToBreaker without the recomputation of the breaker's statistics
addMeterToBreaker_Stale(b, m) == [b EXCEPT !.meters = Append(@, m)]

addMeterToBreaker(b, m) == updateBreakerStats([b EXCEPT !.meters = Append(@, m)])

\* Array.from({ length: type.breakers }, ...) of lines 222-225 and 350-353
NewBreakers(type) ==
    [i \in 1..type.breakers |->
        [id |-> i, load |-> 0, meters |-> <<>>,
         utilizationPercent |-> [n |-> 0, d |-> 1],
         categories |-> {}, timePatterns |-> {}, dedicated |-> FALSE]]

\* ---- transformer type selection (lines 202-204) ---------------------------
RECURSIVE FindType(_, _)
\* TRANSFORMER_TYPES.find(t => load <= t.safeLoad), 0 for undefined
FindType(load, i) ==
    IF i > Len(TRANSFORMER_TYPES) THEN 0
    ELSE IF load <= Amp(TRANSFORMER_TYPES[i].safeLoad) THEN i
    ELSE FindType(load, i + 1)

\* selectOptimalTransformer falling back to the first catalog entry
selectOptimalTransformer_FallbackFirst(load) ==
    IF FindType(load, 1) # 0 THEN TRANSFORMER_TYPES[FindType(load, 1)]
    ELSE TRANSFORMER_TYPES[1]

selectOptimalTransformer(load) ==
    IF FindType(load, 1) # 0 THEN TRANSFORMER_TYPES[FindType(load, 1)]
    ELSE TRANSFORMER_TYPES[Len(TRANSFORMER_TYPES)]

RECURSIVE FindCapacity(_, _)
\* TRANSFORMER_TYPES.find(t => t.capacity === c), 0 for undefined
FindCapacity(c, i) ==
    IF i > Len(TRANSFORMER_TYPES) THEN 0
    ELSE IF TRANSFORMER_TYPES[i].capacity = c THEN i
    ELSE FindCapacity(c, i + 1)

\* ---- scoring and selection ------------------------------------------------
RECURSIVE PairScan(_, _, _, _, _)
\* the double loop of lines 52-62; the score is held doubled (half-amperes)
PairScan(available, i, j, bestPair, bestScore) ==
    IF i > Len(available) THEN bestPair
    ELSE IF j > Len(available) THEN PairScan(available, i + 1, i + 2, bestPair, bestScore)
    ELSE LET b1 == available[i]
             b2 == available[j]
             score == (Amp(100) - Abs(b1.load - b2.load)) + (Amp(200) - b1.load - b2.load)
         IN  IF score > bestScore
             THEN PairScan(available, i, j + 1, <<b1.id, b2.id>>, score)
             ELSE PairScan(available, i, j + 1, bestPair, bestScore)

\* findBestTwoBreakers testing the whole demand of the unit, not one half,
\* against the ceiling
findBestTwoBreakers_WholeLoad(breakers, halfLoad) ==
    LET fits(b) == ~b.dedicated /\ (b.load + 2 * halfLoad) <= Amp(MAX_BREAKER_CAPACITY)
        available == SelectSeq(breakers, fits)
    IN  IF Len(available) < 2 THEN <<>>
        ELSE PairScan(available, 1, 2, <<>>, 0 - Amp(1))

\* returns the ids of the chosen pair, or <<>>
findBestTwoBreakers(breakers, halfLoad) ==
    LET fits(b) == ~b.dedicated /\ (b.load + halfLoad) <= Amp(MAX_BREAKER_CAPACITY)
        available == SelectSeq(breakers, fits)
    IN  IF Len(available) < 2 THEN <<>>
        ELSE PairScan(available, 1, 2, <<>>, 0 - Amp(1))

\* Scores are held multiplied by ScoreScale = 200 * (number of breakers in the
\* group) and loads are half-amperes, which makes every term an integer:
\* targetLoad is targetNum / n and avgLoad is sum / n half-amperes.
ScoreScale(allBreakersInGroup) == 200 * Len(allBreakersInGroup)

RECURSIVE SumLoad(_)
SumLoad(bs) == IF bs = <<>> THEN 0 ELSE Head(bs).load + SumLoad(Tail(bs))

\* calculateBreakerScore without the disqualification of line 72
calculateBreakerScore_NoCeiling(breaker, meter, allBreakersInGroup, targetNum) ==
    LET n == Len(allBreakersInGroup)
        newLoad == breaker.load + meter.cdl
        currentDiff == Abs(n * breaker.load - targetNum)
        newDiff == Abs(n * newLoad - targetNum)
        sum == SumLoad(allBreakersInGroup)
        currentBalanceDiff == Abs(n * breaker.load - sum)
        newBalanceDiff == Abs(n * newLoad - sum)
    IN  1000 * ScoreScale(allBreakersInGroup)
        + 1000 * (currentDiff - newDiff)
        - 200 * (newBalanceDiff - currentBalanceDiff)
        + (IF meter.category \notin breaker.categories THEN 100 * n ELSE 0)
        + (IF meter.timePattern \notin breaker.timePatterns THEN 50 * n ELSE 0)
        - (IF n * breaker.load < targetNum THEN breaker.load * n ELSE 0)

calculateBreakerScore(breaker, meter, allBreakersInGroup, targetNum) ==
    LET n == Len(allBreakersInGroup)
        newLoad == breaker.load + meter.cdl
        currentDiff == Abs(n * breaker.load - targetNum)
        newDiff == Abs(n * newLoad - targetNum)
        sum == SumLoad(allBreakersInGroup)
        currentBalanceDiff == Abs(n * breaker.load - sum)
        newBalanceDiff == Abs(n * newLoad - sum)
    IN  IF newLoad > Amp(MAX_BREAKER_CAPACITY) THEN 0 - ScoreScale(allBreakersInGroup)
        ELSE 1000 * ScoreScale(allBreakersInGroup)
             + 1000 * (currentDiff - newDiff)
             - 200 * (newBalanceDiff - currentBalanceDiff)
             + (IF meter.category \notin breaker.categories THEN 100 * n ELSE 0)
             + (IF meter.timePattern \notin breaker.timePatterns THEN 50 * n ELSE 0)
             - (IF n * breaker.load < targetNum THEN breaker.load * n ELSE 0)

RECURSIVE BreakerScan_LastWins(_, _, _, _, _, _)
\* the loop of lines 179-185 with >= for >: the last of equal scores wins
BreakerScan_LastWins(group, k, meter, targetNum, bestBreaker, bestScore) ==
    IF k > Len(group) THEN bestBreaker
    ELSE LET score == calculateBreakerScore(group[k], meter, group, targetNum)
         IN  IF score >= bestScore /\ score > 0 - ScoreScale(group)
             THEN BreakerScan_LastWins(group, k + 1, meter, targetNum, k, score)
             ELSE BreakerScan_LastWins(group, k + 1, meter, targetNum, bestBreaker, bestScore)

RECURSIVE BreakerScan(_, _, _, _, _, _)
\* the loop of lines 179-185; returns the index in breakersToUse of
\* bestBreaker, 0 for null
BreakerScan(group, k, meter, targetNum, bestBreaker, bestScore) ==
    IF k > Len(group) THEN bestBreaker
    ELSE LET score == calculateBreakerScore(group[k], meter, group, targetNum)
         IN  IF score > bestScore
             THEN BreakerScan(group, k + 1, meter, targetNum, k, score)
             ELSE BreakerScan(group, k + 1, meter, targetNum, bestBreaker, bestScore)

\* ---- phase 1 of distributeMetersOnTransformer (lines 113-122) -------------
RECURSIVE FirstEmpty(_, _)
\* transformer.breakers.find(b => b.meters.length === 0), 0 for undefined
FirstEmpty(breakers, i) ==
    IF i > Len(breakers) THEN 0
    ELSE IF Len(breakers[i].meters) = 0 THEN i
    ELSE FirstEmpty(breakers, i + 1)

RECURSIVE PlaceLarge(_, _, _)
PlaceLarge(breakers, largeMeters, unplaced) ==
    IF largeMeters = <<>> THEN [breakers |-> breakers, unplaced |-> unplaced]
    ELSE LET meter == Head(largeMeters)
             d == FirstEmpty(breakers, 1)
         IN  IF d # 0
             THEN PlaceLarge([breakers EXCEPT ![d] =
                                 [addMeterToBreaker(@, meter) EXCEPT !.dedicated = TRUE]],
                             Tail(largeMeters), unplaced)
             ELSE PlaceLarge(breakers, Tail(largeMeters), Append(unplaced, meter))

\* ---- greedy pull of lines 232-241 ------------------------------------------
RECURSIVE Pull_EachAlone(_, _, _, _)
\* the pull loop comparing each unit alone, without the load pulled so far,
\* to the safe load
Pull_EachAlone(tempRemaining, safeLoad, assigned, remaining) ==
    IF tempRemaining = <<>> THEN [assigned |-> assigned, remaining |-> remaining]
    ELSE LET meter == Head(tempRemaining)
         IN  IF meter.cdl <= Amp(safeLoad)
             THEN Pull_EachAlone(Tail(tempRemaining), safeLoad,
                                 Append(assigned, meter), remaining)
             ELSE Pull_EachAlone(Tail(tempRemaining), safeLoad, assigned,
                                 Append(remaining, meter))

RECURSIVE Pull_StopAtFirst(_, _, _, _)
\* the pull loop leaving the first unit that does not fit, and every unit
\* after it, in the pool
Pull_StopAtFirst(tempRemaining, safeLoad, assigned, remaining) ==
    IF tempRemaining = <<>> THEN [assigned |-> assigned, remaining |-> remaining]
    ELSE LET meter == Head(tempRemaining)
         IN  IF SumCdl(assigned) + meter.cdl <= Amp(safeLoad)
             THEN Pull_StopAtFirst(Tail(tempRemaining), safeLoad,
                                   Append(assigned, meter), remaining)
             ELSE [assigned |-> assigned, remaining |-> remaining \o tempRemaining]

RECURSIVE Pull(_, _, _, _)
Pull(tempRemaining, safeLoad, assigned, remaining) ==
    IF tempRemaining = <<>> THEN [assigned |-> assigned, remaining |-> remaining]
    ELSE LET meter == Head(tempRemaining)
         IN  IF SumCdl(assigned) + meter.cdl <= Amp(safeLoad)
             THEN Pull(Tail(tempRemaining), safeLoad, Append(assigned, meter), remaining)
             ELSE Pull(Tail(tempRemaining), safeLoad, assigned, Append(remaining, meter))

\* ---- state ---------------------------------------------------------------
VARIABLES
    meterGroups,                \* the input (line 316)
    pc,                         \* position in the program
    dedicatedTransformerMeters, \* line 327, the part not yet handled
    individualMeters,           \* the units handed to the orchestrator (line 328)
    dedicatedTransformers,      \* line 330
    transformers,               \* line 210
    remainingMeters,            \* line 211
    transformer,                \* line 218, the transformer being filled
    assignedMeters,             \* line 228
    dualBreakerMeters,          \* line 107, the part not yet handled
    regularMeters,              \* line 108, the part not yet handled
    unplacedMeters,             \* line 110
    breakersAlreadyPaired,      \* line 125
    breakersToUse,              \* line 163, as breaker ids
    targetNum,                  \* line 168: targetLoad = targetNum / Len(breakersToUse)
    result                      \* line 376

vars == << meterGroups, pc, dedicatedTransformerMeters, individualMeters,
           dedicatedTransformers, transformers, remainingMeters, transformer,
           assignedMeters, dualBreakerMeters, regularMeters, unplacedMeters,
           breakersAlreadyPaired, breakersToUse, targetNum, result >>

packerVars == << transformer, assignedMeters, dualBreakerMeters, regularMeters,
                 unplacedMeters, breakersAlreadyPaired, breakersToUse, targetNum >>

NoTransformer ==
    [type |-> TRANSFORMER_TYPES[1], assignedLoad |-> 0, breakers |-> <<>>,
     isDedicated |-> FALSE]

NoResult ==
    [totalLoad |-> 0, transformers |-> <<>>, balanceScore |-> 0,
     summary |-> [totalTransformers |-> 0, totalBreakers |-> 0,
                  distributionEntries |-> 0, totalMeters |-> 0,
                  overloadedBreakers |-> 0, overloadedTransformers |-> 0,
                  balanceScore |-> 0]]

Init ==
    /\ meterGroups \in GroupSeqs
    /\ pc = "start"
    /\ dedicatedTransformerMeters = <<>>
    /\ individualMeters = <<>>
    /\ dedicatedTransformers = <<>>
    /\ transformers = <<>>
    /\ remainingMeters = <<>>
    /\ transformer = NoTransformer
    /\ assignedMeters = <<>>
    /\ dualBreakerMeters = <<>>
    /\ regularMeters = <<>>
    /\ unplacedMeters = <<>>
    /\ breakersAlreadyPaired = {}
    /\ breakersToUse = <<>>
    /\ targetNum = 0
    /\ result = NoResult

\* ---- performBalancedDistributionMultiTransformer, lines 317-328 ------------
\* the filter of line 327 with > for >=
IsDedicatedMeter_Strict(m) == m.capacity > 1600

\* the filter of line 327
IsDedicatedMeter(m) == m.capacity >= 1600

Expand ==
    /\ pc = "start"
    /\ LET all == ExpandMeters(meterGroups)
           isSmall(m) == m.capacity < 1600
       IN  /\ dedicatedTransformerMeters' = SelectSeq(all, IsDedicatedMeter)
           /\ individualMeters' = SelectSeq(all, isSmall)
    /\ pc' = "dedicated"
    /\ UNCHANGED << meterGroups, dedicatedTransformers, transformers,
                    remainingMeters, packerVars, result >>

\* one pass of the forEach of lines 333-365
DedicateMeter ==
    /\ pc = "dedicated"
    /\ dedicatedTransformerMeters # <<>>
    /\ LET meter == Head(dedicatedTransformerMeters)
           found == IF meter.capacity = 1600 THEN FindCapacity(1000, 1)
                    ELSE IF meter.capacity = 2500 THEN FindCapacity(1500, 1)
                    ELSE 0
           selectedType == IF found # 0 THEN TRANSFORMER_TYPES[found]
                           ELSE selectOptimalTransformer(meter.cdl)
           fresh == NewBreakers(selectedType)
           t == [type |-> selectedType,
                 assignedLoad |-> meter.cdl,
                 breakers |-> [fresh EXCEPT ![1] =
                     addMeterToBreaker([@ EXCEPT !.dedicated = TRUE], meter)],
                 isDedicated |-> TRUE]
       IN  dedicatedTransformers' = Append(dedicatedTransformers, t)
    /\ dedicatedTransformerMeters' = Tail(dedicatedTransformerMeters)
    /\ UNCHANGED << meterGroups, pc, individualMeters, transformers,
                    remainingMeters, packerVars, result >>

\* ---- distributeOnMultipleTransformers -------------------------------------
\* the call of line 367 and lines 208-212
StartOrchestrator ==
    /\ pc = "dedicated"
    /\ dedicatedTransformerMeters = <<>>
    /\ IF Len(individualMeters) = 0
       THEN pc' = "summary" /\ UNCHANGED remainingMeters
       ELSE pc' = "while" /\ remainingMeters' = individualMeters
    /\ UNCHANGED << meterGroups, dedicatedTransformerMeters, individualMeters,
                    dedicatedTransformers, transformers, packerVars, result >>

\* the loop test of line 214 and the return of line 258.  The pool of a run
\* that does not terminate grows without bound; MaxPool cuts such a run off.
WhileTest ==
    /\ pc = "while"
    /\ Len(remainingMeters) <= MaxPool
    /\ pc' = IF Len(remainingMeters) > 0 THEN "select" ELSE "summary"
    /\ UNCHANGED << meterGroups, dedicatedTransformerMeters, individualMeters,
                    dedicatedTransformers, transformers, remainingMeters,
                    packerVars, result >>

\* lines 215-243 and, inside distributeMetersOnTransformer, lines 104-125
BeginTransformer ==
    /\ pc = "select"
    /\ LET remainingLoad == SumCdl(remainingMeters)
           selectedType == selectOptimalTransformer(remainingLoad)
           pulled == Pull(SortDesc(remainingMeters), selectedType.safeLoad, <<>>, <<>>)
           sortedMeters == SortDesc(assignedMeters')
           isLarge(m) == m.capacity >= 1600
           isDual(m) == m.capacity >= 400 /\ m.capacity < 1600
           isRegular(m) == m.capacity < 400
           phase1 == PlaceLarge(NewBreakers(selectedType),
                                SelectSeq(sortedMeters, isLarge), <<>>)
       IN  /\ remainingMeters' = pulled.remaining
           /\ assignedMeters' = pulled.assigned
           /\ IF Len(pulled.assigned) > 0
              THEN /\ transformer' = [type |-> selectedType, assignedLoad |-> 0,
                                      breakers |-> phase1.breakers,
                                      isDedicated |-> FALSE]
                   /\ dualBreakerMeters' = SelectSeq(sortedMeters, isDual)
                   /\ regularMeters' = SelectSeq(sortedMeters, isRegular)
                   /\ unplacedMeters' = phase1.unplaced
                   /\ pc' = "phase2"
              ELSE /\ transformer' = NoTransformer
                   /\ dualBreakerMeters' = <<>>
                   /\ regularMeters' = <<>>
                   /\ unplacedMeters' = <<>>
                   /\ pc' = "while"
    /\ breakersAlreadyPaired' = {}
    /\ breakersToUse' = <<>>
    /\ targetNum' = 0
    /\ UNCHANGED << meterGroups, dedicatedTransformerMeters, individualMeters,
                    dedicatedTransformers, transformers, result >>

\* ---- distributeMetersOnTransformer ----------------------------------------
\* Math.floor(meter.cdl / 2) in amperes
HalfLoad_Floor(meter) == 2 * ((meter.cdl \div 2) \div 2)

\* meter.cdl / 2 (line 127); a cdl is an even number of half-amperes
HalfLoad(meter) == meter.cdl \div 2

\* { ...meter, id: `${meter.id}_p<k>`, cdl: halfLoad, note: part k }
SplitPart(meter, k) ==
    [meter EXCEPT !.id.p = k, !.cdl = HalfLoad(meter),
                  !.note = IF k = 1 THEN "part1" ELSE "part2"]

\* one pass of the forEach of lines 126-148 without the bookkeeping of
\* lines 143-144: the breakers of the pair are not recorded as consumed
PlaceSplit_NoMark ==
    /\ pc = "phase2"
    /\ dualBreakerMeters # <<>>
    /\ LET meter == Head(dualBreakerMeters)
           halfLoad == HalfLoad(meter)
           notPaired(b) == b.id \notin breakersAlreadyPaired
           candidateBreakers == SelectSeq(transformer.breakers, notPaired)
           bestPair == findBestTwoBreakers(candidateBreakers, halfLoad)
       IN  IF halfLoad > Amp(MAX_BREAKER_CAPACITY)
           THEN /\ unplacedMeters' = Append(unplacedMeters, meter)
                /\ UNCHANGED << transformer, breakersAlreadyPaired >>
           ELSE IF Len(bestPair) = 2
           THEN /\ transformer' = [transformer EXCEPT
                       !.breakers[bestPair[1]] = addMeterToBreaker(@, SplitPart(meter, 1)),
                       !.breakers[bestPair[2]] = addMeterToBreaker(@, SplitPart(meter, 2))]
                /\ UNCHANGED << unplacedMeters, breakersAlreadyPaired >>
           ELSE /\ unplacedMeters' = Append(unplacedMeters, meter)
                /\ UNCHANGED << transformer, breakersAlreadyPaired >>
    /\ dualBreakerMeters' = Tail(dualBreakerMeters)
    /\ UNCHANGED << meterGroups, pc, dedicatedTransformerMeters, individualMeters,
                    dedicatedTransformers, transformers, remainingMeters,
                    assignedMeters, regularMeters, breakersToUse, targetNum,
                    result >>

\* one pass of the forEach of lines 126-148
PlaceSplit ==
    /\ pc = "phase2"
    /\ dualBreakerMeters # <<>>
    /\ LET meter == Head(dualBreakerMeters)
           halfLoad == HalfLoad(meter)
           notPaired(b) == b.id \notin breakersAlreadyPaired
           candidateBreakers == SelectSeq(transformer.breakers, notPaired)
           bestPair == findBestTwoBreakers(candidateBreakers, halfLoad)
       IN  IF halfLoad > Amp(MAX_BREAKER_CAPACITY)
           THEN /\ unplacedMeters' = Append(unplacedMeters, meter)
                /\ UNCHANGED << transformer, breakersAlreadyPaired >>
           ELSE IF Len(bestPair) = 2
           THEN /\ transformer' = [transformer EXCEPT
                       !.breakers[bestPair[1]] = addMeterToBreaker(@, SplitPart(meter, 1)),
                       !.breakers[bestPair[2]] = addMeterToBreaker(@, SplitPart(meter, 2))]
                /\ breakersAlreadyPaired' =
                       breakersAlreadyPaired \cup {bestPair[1], bestPair[2]}
                /\ UNCHANGED unplacedMeters
           ELSE /\ unplacedMeters' = Append(unplacedMeters, meter)
                /\ UNCHANGED << transformer, breakersAlreadyPaired >>
    /\ dualBreakerMeters' = Tail(dualBreakerMeters)
    /\ UNCHANGED << meterGroups, pc, dedicatedTransformerMeters, individualMeters,
                    dedicatedTransformers, transformers, remainingMeters,
                    assignedMeters, regularMeters, breakersToUse, targetNum,
                    result >>

\* the set-up of phase 3 with Math.floor for Math.ceil at line 158
StartRegular_Floor ==
    /\ pc = "phase2"
    /\ dualBreakerMeters = <<>>
    /\ LET totalRegularLoad == SumCdl(regularMeters)
           free(b) == ~b.dedicated /\ b.id \notin breakersAlreadyPaired
           availableBreakers == SelectSeq(transformer.breakers, free)
           \* Math.floor(totalRegularLoad / MAX_BREAKER_CAPACITY)
           requiredBreakersCount == totalRegularLoad \div Amp(MAX_BREAKER_CAPACITY)
           numBreakersToUse == Min(requiredBreakersCount, Len(availableBreakers))
       IN  IF Len(regularMeters) > 0
           THEN IF numBreakersToUse > 0
                THEN /\ breakersToUse' =
                         [k \in 1..numBreakersToUse |-> availableBreakers[k].id]
                     \* min(totalRegularLoad / n, MAX_BREAKER_CAPACITY), times n
                     /\ targetNum' = Min(totalRegularLoad,
                                         numBreakersToUse * Amp(MAX_BREAKER_CAPACITY))
                     /\ pc' = "phase3"
                     /\ UNCHANGED << unplacedMeters, regularMeters >>
                ELSE /\ unplacedMeters' = unplacedMeters \o regularMeters
                     /\ regularMeters' = <<>>
                     /\ pc' = "finish"
                     /\ UNCHANGED << breakersToUse, targetNum >>
           ELSE /\ pc' = "finish"
                /\ UNCHANGED << unplacedMeters, regularMeters, breakersToUse,
                                targetNum >>
    /\ UNCHANGED << meterGroups, dedicatedTransformerMeters, individualMeters,
                    dedicatedTransformers, transformers, remainingMeters,
                    transformer, assignedMeters, dualBreakerMeters,
                    breakersAlreadyPaired, result >>

\* lines 151-168 and 193-195: the set-up of phase 3
StartRegular ==
    /\ pc = "phase2"
    /\ dualBreakerMeters = <<>>
    /\ LET totalRegularLoad == SumCdl(regularMeters)
           free(b) == ~b.dedicated /\ b.id \notin breakersAlreadyPaired
           availableBreakers == SelectSeq(transformer.breakers, free)
           \* Math.ceil(totalRegularLoad / MAX_BREAKER_CAPACITY)
           requiredBreakersCount ==
               (totalRegularLoad + Amp(MAX_BREAKER_CAPACITY) - 1)
                   \div Amp(MAX_BREAKER_CAPACITY)
           numBreakersToUse == Min(requiredBreakersCount, Len(availableBreakers))
       IN  IF Len(regularMeters) > 0
           THEN IF numBreakersToUse > 0
                THEN /\ breakersToUse' =
                         [k \in 1..numBreakersToUse |-> availableBreakers[k].id]
                     \* min(totalRegularLoad / n, MAX_BREAKER_CAPACITY), times n
                     /\ targetNum' = Min(totalRegularLoad,
                                         numBreakersToUse * Amp(MAX_BREAKER_CAPACITY))
                     /\ pc' = "phase3"
                     /\ UNCHANGED << unplacedMeters, regularMeters >>
                ELSE /\ unplacedMeters' = unplacedMeters \o regularMeters
                     /\ regularMeters' = <<>>
                     /\ pc' = "finish"
                     /\ UNCHANGED << breakersToUse, targetNum >>
           ELSE /\ pc' = "finish"
                /\ UNCHANGED << unplacedMeters, regularMeters, breakersToUse,
                                targetNum >>
    /\ UNCHANGED << meterGroups, dedicatedTransformerMeters, individualMeters,
                    dedicatedTransformers, transformers, remainingMeters,
                    transformer, assignedMeters, dualBreakerMeters,
                    breakersAlreadyPaired, result >>

\* one pass of the forEach of lines 172-192 with bestScore starting at the
\* base score 1000 instead of -1
PlaceRegular_AboveBase ==
    /\ pc = "phase3"
    /\ regularMeters # <<>>
    /\ LET meter == Head(regularMeters)
           group == [k \in 1..Len(breakersToUse) |->
                        transformer.breakers[breakersToUse[k]]]
           bestBreaker == BreakerScan(group, 1, meter, targetNum, 0,
                                      1000 * ScoreScale(group))
       IN  IF bestBreaker # 0
           THEN /\ transformer' = [transformer EXCEPT
                       !.breakers[breakersToUse[bestBreaker]] =
                           addMeterToBreaker(@, meter)]
                /\ UNCHANGED unplacedMeters
           ELSE /\ unplacedMeters' = Append(unplacedMeters, meter)
                /\ UNCHANGED transformer
    /\ regularMeters' = Tail(regularMeters)
    /\ pc' = IF Tail(regularMeters) = <<>> THEN "finish" ELSE "phase3"
    /\ UNCHANGED << meterGroups, dedicatedTransformerMeters, individualMeters,
                    dedicatedTransformers, transformers, remainingMeters,
                    assignedMeters, dualBreakerMeters, breakersAlreadyPaired,
                    breakersToUse, targetNum, result >>

\* one pass of the forEach of lines 172-192
PlaceRegular ==
    /\ pc = "phase3"
    /\ regularMeters # <<>>
    /\ LET meter == Head(regularMeters)
           group == [k \in 1..Len(breakersToUse) |->
                        transformer.breakers[breakersToUse[k]]]
           bestBreaker == BreakerScan(group, 1, meter, targetNum, 0,
                                      0 - ScoreScale(group))
       IN  IF bestBreaker # 0
           THEN /\ transformer' = [transformer EXCEPT
                       !.breakers[breakersToUse[bestBreaker]] =
                           addMeterToBreaker(@, meter)]
                /\ UNCHANGED unplacedMeters
           ELSE /\ unplacedMeters' = Append(unplacedMeters, meter)
                /\ UNCHANGED transformer
    /\ regularMeters' = Tail(regularMeters)
    /\ pc' = IF Tail(regularMeters) = <<>> THEN "finish" ELSE "phase3"
    /\ UNCHANGED << meterGroups, dedicatedTransformerMeters, individualMeters,
                    dedicatedTransformers, transformers, remainingMeters,
                    assignedMeters, dualBreakerMeters, breakersAlreadyPaired,
                    breakersToUse, targetNum, result >>

\* the return of line 199 and lines 245-256
FinishTransformer ==
    /\ pc = "finish"
    /\ LET assignedLoad == SumLoad(transformer.breakers)
           pool == remainingMeters \o unplacedMeters
       IN  /\ transformer' = [transformer EXCEPT !.assignedLoad = assignedLoad]
           /\ IF assignedLoad > 0
              THEN /\ transformers' = Append(transformers, transformer')
                   /\ remainingMeters' = pool
              ELSE /\ remainingMeters' = pool \o assignedMeters
                   /\ UNCHANGED transformers
    /\ pc' = "while"
    /\ UNCHANGED << meterGroups, dedicatedTransformerMeters, individualMeters,
                    dedicatedTransformers, assignedMeters, dualBreakerMeters,
                    regularMeters, unplacedMeters, breakersAlreadyPaired,
                    breakersToUse, targetNum, result >>

\* ---- summary and scoring ---------------------------------------------------
\* transformers.flatMap(t => t.breakers)
AllBreakersOf(ts) == Flatten([k \in 1..Len(ts) |-> ts[k].breakers])

\* breakers.flatMap(b => b.meters)
AllMetersOf(bs) == Flatten([k \in 1..Len(bs) |-> bs[k].meters])

NonEmpty(b) == Len(b.meters) > 0

RECURSIVE SumSeq(_)
SumSeq(xs) == IF xs = <<>> THEN 0 ELSE Head(xs) + SumSeq(Tail(xs))

RECURSIVE LeastRoot(_, _, _)
\* the least k with (unit * k)^2 >= x
LeastRoot(x, unit, k) == IF (unit * k) * (unit * k) >= x THEN k ELSE LeastRoot(x, unit, k + 1)

\* calculateOverallBalanceScore without the filter on t.isDedicated
calculateOverallBalanceScore_AllTransformers(ts) ==
    LET allBreakers == SelectSeq(AllBreakersOf(ts), NonEmpty)
        n == Len(allBreakers)
        utils == [k \in 1..n |->
                     (10 * allBreakers[k].utilizationPercent.n)
                         \div allBreakers[k].utilizationPercent.d]
        squares == [k \in 1..n |-> utils[k] * utils[k]]
        spread == n * SumSeq(squares) - SumSeq(utils) * SumSeq(utils)
    IN  IF Len(ts) = 0 THEN 0
        ELSE IF n = 0 THEN 100
        ELSE Max(0, Min(100, 100 - LeastRoot(spread, 5 * n, 0)))

\* lines 264-274.  The utilizations enter in tenths of a percent (rounded
\* down) and the value is the integer part of the program's score:
\* 100 - 2 * stdDev rounded down is 100 - (least k with k >= 2 * stdDev).
calculateOverallBalanceScore(ts) ==
    LET notDedicated(t) == ~t.isDedicated
        allBreakers == SelectSeq(AllBreakersOf(SelectSeq(ts, notDedicated)), NonEmpty)
        n == Len(allBreakers)
        utils == [k \in 1..n |->
                     (10 * allBreakers[k].utilizationPercent.n)
                         \div allBreakers[k].utilizationPercent.d]
        squares == [k \in 1..n |-> utils[k] * utils[k]]
        \* n^2 times the variance of utils
        spread == n * SumSeq(squares) - SumSeq(utils) * SumSeq(utils)
    IN  IF Len(ts) = 0 THEN 0
        ELSE IF n = 0 THEN 100
        ELSE Max(0, Min(100, 100 - LeastRoot(spread, 5 * n, 0)))

\* calculateMultiTransformerSummary subtracting every split half
calculateMultiTransformerSummary_BothHalves(ts, totalLoad, balanceScore, originalMeters) ==
    LET allBreakers == SelectSeq(AllBreakersOf(ts), NonEmpty)
        isHalf(m) == m.note # ""
        halves == Len(SelectSeq(AllMetersOf(allBreakers), isHalf))
        overB(b) == b.utilizationPercent.n > 100 * b.utilizationPercent.d
        overT(t) == t.assignedLoad > Amp(t.type.safeLoad)
    IN  [totalTransformers |-> Len(ts),
         totalBreakers |-> Len(allBreakers),
         distributionEntries |-> Len(allBreakers) - halves,
         totalMeters |-> SumSeq([g \in 1..Len(originalMeters) |-> originalMeters[g].count]),
         overloadedBreakers |-> Len(SelectSeq(allBreakers, overB)),
         overloadedTransformers |-> Len(SelectSeq(ts, overT)),
         balanceScore |-> balanceScore]

\* lines 276-312: the integer fields and the balance score; the fields that
\* are display strings of totalLoad and of the utilizations are left out.
calculateMultiTransformerSummary(ts, totalLoad, balanceScore, originalMeters) ==
    LET allBreakers == SelectSeq(AllBreakersOf(ts), NonEmpty)
        isPart1(m) == m.note = "part1"
        part1MetersCount == Len(SelectSeq(AllMetersOf(allBreakers), isPart1))
        overB(b) == b.utilizationPercent.n > 100 * b.utilizationPercent.d
        overT(t) == t.assignedLoad > Amp(t.type.safeLoad)
    IN  [totalTransformers |-> Len(ts),
         totalBreakers |-> Len(allBreakers),
         distributionEntries |-> Len(allBreakers) - part1MetersCount,
         totalMeters |-> SumSeq([g \in 1..Len(originalMeters) |-> originalMeters[g].count]),
         overloadedBreakers |-> Len(SelectSeq(allBreakers, overB)),
         overloadedTransformers |-> Len(SelectSeq(ts, overT)),
         balanceScore |-> balanceScore]

\* lines 317 and 369-381
Summarize ==
    /\ pc = "summary"
    /\ LET totalLoad == SumSeq([g \in 1..Len(meterGroups) |-> meterGroups[g].totalCDL])
           allTransformers == dedicatedTransformers \o transformers
           balanceScore == calculateOverallBalanceScore(allTransformers)
       IN  result' = [totalLoad |-> totalLoad,
                      transformers |-> allTransformers,
                      balanceScore |-> balanceScore,
                      summary |-> calculateMultiTransformerSummary(
                                      allTransformers, totalLoad, balanceScore,
                                      meterGroups)]
    /\ pc' = "done"
    /\ UNCHANGED << meterGroups, dedicatedTransformerMeters, individualMeters,
                    dedicatedTransformers, transformers, remainingMeters,
                    packerVars >>

Next ==
    \/ Expand
    \/ DedicateMeter
    \/ StartOrchestrator
    \/ WhileTest
    \/ BeginTransformer
    \/ PlaceSplit
    \/ StartRegular
    \/ PlaceRegular
    \/ FinishTransformer
    \/ Summarize

Spec == Init /\ [][Next]_vars

\* The program runs to completion: every step that can be taken is taken.
FairSpec == Spec /\ WF_vars(Next)

\* ---- vocabulary of the properties -----------------------------------------
\* every transformer built so far: the dedicated ones and the emitted ones
Emitted == dedicatedTransformers \o transformers

\* the units of the input, as expanded
InputUnits == ExpandMeters(meterGroups)

\* the unit a placed meter comes from: its id without the split suffix
BaseId(m) == [m.id EXCEPT !.p = 0]

RECURSIVE Total(_)
Total(ms) == IF Len(ms) = 0 THEN 0 ELSE ms[1].cdl + Total(SubSeq(ms, 2, Len(ms)))

Occurrences(ms, id) == Cardinality({ k \in 1..Len(ms) : ms[k].id = id })

\* the meters held by the breakers of a sequence of transformers
PlacedIn(ts) == AllMetersOf(AllBreakersOf(ts))

\* the run was cut off by the bound on the pool
CutOff == pc = "while" /\ Len(remainingMeters) > MaxPool

\* ---- C1 ---------------------------------------------------------------------
\* C1: for every input the orchestrator loop eventually reaches an empty
\* pool and the program returns a result.  (A run cut off by the bound on
\* the pool is not held against the program.)
C1_Terminates == <>(pc = "done" \/ CutOff)

\* ---- C2 ---------------------------------------------------------------------
\* the input units of which no part is held by any breaker of the result
NeverPlaced ==
    LET missing(u) == \A k \in 1..Len(PlacedIn(result.transformers)) :
                          BaseId(PlacedIn(result.transformers)[k]) # u.id
    IN  SelectSeq(InputUnits, missing)

\* C2: in the returned result the demand of the placed units plus the demand
\* of the units never placed equals the total load of the input groups.
C2_LoadConserved ==
    pc = "done" =>
        Total(PlacedIn(result.transformers)) + Total(NeverPlaced) = result.totalLoad

\* ---- C3 ---------------------------------------------------------------------
\* C3: every unit (a split unit as its two halves) is held by at most one
\* breaker of the transformers built so far, and at most once.
C3_PlacedOnce ==
    \A k \in 1..Len(PlacedIn(Emitted)) :
        Occurrences(PlacedIn(Emitted), PlacedIn(Emitted)[k].id) = 1

\* ---- C4 ---------------------------------------------------------------------
\* the breakers of the non-dedicated transformers: emitted and being filled
PackedBreakers == AllBreakersOf(transformers) \o transformer.breakers

\* C4: at every step no breaker of a non-dedicated transformer carries more
\* than MAX_BREAKER_CAPACITY.
C4_BreakerCeiling ==
    \A k \in 1..Len(PackedBreakers) :
        PackedBreakers[k].load <= Amp(MAX_BREAKER_CAPACITY)

\* the regular packer has refused a unit above the ceiling and placed another
C4_Witness ==
    /\ pc = "finish"
    /\ \E u \in 1..Len(unplacedMeters) :
          /\ unplacedMeters[u].capacity < 400
          /\ unplacedMeters[u].cdl > Amp(MAX_BREAKER_CAPACITY)
    /\ \E k \in 1..Len(transformer.breakers) : transformer.breakers[k].load > 0

\* ---- C5 ---------------------------------------------------------------------
\* the breakers of the transformer being filled that a step changes
Touched == { k \in 1..Len(transformer.breakers) :
                transformer'.breakers[k] # transformer.breakers[k] }

\* C5: a step of the split phase that places a dual-band unit appends one
\* half to each of two distinct breakers of the transformer; the halves are
\* parts 1 and 2 of that unit, their demands add up to the unit's demand, and
\* the whole unit is held by no breaker.
C5_SplitPair ==
    [][ (pc = "phase2" /\ transformer' # transformer) =>
          LET meter == Head(dualBreakerMeters)
          IN  /\ Cardinality(Touched) = 2
              /\ \E a \in Touched : \E b \in Touched :
                    /\ a # b
                    /\ Len(transformer'.breakers[a].meters) =
                           Len(transformer.breakers[a].meters) + 1
                    /\ Len(transformer'.breakers[b].meters) =
                           Len(transformer.breakers[b].meters) + 1
                    /\ LET h1 == transformer'.breakers[a].meters[
                                     Len(transformer'.breakers[a].meters)]
                           h2 == transformer'.breakers[b].meters[
                                     Len(transformer'.breakers[b].meters)]
                       IN  /\ BaseId(h1) = meter.id /\ h1.id.p = 1
                           /\ BaseId(h2) = meter.id /\ h2.id.p = 2
                           /\ h1.cdl + h2.cdl = meter.cdl
              /\ \A k \in 1..Len(PlacedIn(<<transformer'>>)) :
                    PlacedIn(<<transformer'>>)[k].id # meter.id
       ]_vars

\* a dual-band unit of 45 A has been split into two halves of 22.5 A
C5_Witness ==
    /\ pc = "phase2"
    /\ breakersAlreadyPaired # {}
    /\ \E k \in 1..Len(transformer.breakers) :
          /\ Len(transformer.breakers[k].meters) = 1
          /\ transformer.breakers[k].meters[1].id.p = 1
          /\ transformer.breakers[k].meters[1].cdl = 45

\* ---- C6 ---------------------------------------------------------------------
LargeUnits == LET large(m) == m.capacity >= 1600 IN SelectSeq(InputUnits, large)

DedicatedOf(ts) == LET ded(t) == t.isDedicated IN SelectSeq(ts, ded)

SharedOf(ts) == LET shared(t) == ~t.isDedicated IN SelectSeq(ts, shared)

\* C6: once the dedicated units are handled, the dedicated transformers are,
\* one for one, the units of capacity >= 1600: each holds its unit alone on
\* its first breaker and its other breakers are empty; no such unit is ever
\* in a non-dedicated transformer, and the result keeps all of this.
C6_OneDedicatedEach ==
    /\ pc \notin {"start", "dedicated"} =>
          /\ Len(dedicatedTransformers) = Len(LargeUnits)
          /\ \A k \in 1..Len(dedicatedTransformers) :
                LET t == dedicatedTransformers[k]
                IN  /\ t.isDedicated
                    /\ k <= Len(LargeUnits)
                    /\ t.breakers[1].meters = <<LargeUnits[k]>>
                    /\ \A j \in 2..Len(t.breakers) : t.breakers[j].meters = <<>>
    /\ \A k \in 1..Len(PlacedIn(transformers \o <<transformer>>)) :
          PlacedIn(transformers \o <<transformer>>)[k].capacity < 1600
    /\ pc = "done" =>
          /\ DedicatedOf(result.transformers) = dedicatedTransformers
          /\ SharedOf(result.transformers) = transformers

\* a result with two dedicated transformers next to a shared one
C6_Witness ==
    /\ pc = "done"
    /\ Len(DedicatedOf(result.transformers)) >= 2
    /\ Len(SharedOf(result.transformers)) >= 1

\* ---- C7 ---------------------------------------------------------------------
\* the result has no non-empty breaker in a non-dedicated transformer
NoSharedLoad ==
    \A k \in 1..Len(AllBreakersOf(SharedOf(result.transformers))) :
        Len(AllBreakersOf(SharedOf(result.transformers))[k].meters) = 0

\* C7: whenever the result has no non-empty breaker in a non-dedicated
\* transformer, the empty input included, the balance score is 100.
C7_NoSharedLoadScores100 ==
    (pc = "done" /\ NoSharedLoad) => result.balanceScore = 100

\* C7, amended: the balance score is 100 when the result has transformers
\* but no non-empty breaker in a non-dedicated one, and 0 when the result has
\* no transformer at all.
C7_Amended ==
    /\ (pc = "done" /\ NoSharedLoad /\ Len(result.transformers) > 0)
           => (result.balanceScore = 100 /\ result.summary.balanceScore = 100)
    /\ (pc = "done" /\ Len(result.transformers) = 0)
           => (result.balanceScore = 0 /\ result.summary.balanceScore = 0)

\* a result made of two dedicated transformers of different utilization
C7_Witness ==
    /\ pc = "done"
    /\ NoSharedLoad
    /\ Len(result.transformers) = 2
    /\ result.transformers[1].breakers[1].utilizationPercent
           # result.transformers[2].breakers[1].utilizationPercent

\* ---- C8 ---------------------------------------------------------------------
\* C8: at every step every breaker's load is the sum of the demands of the
\* units it holds, and every transformer built so far has an assignedLoad
\* equal to the sum of its breakers' loads.
C8_LoadsAreSums ==
    /\ \A k \in 1..Len(AllBreakersOf(Emitted) \o transformer.breakers) :
          LET b == (AllBreakersOf(Emitted) \o transformer.breakers)[k]
          IN  b.load = Total(b.meters)
    /\ \A k \in 1..Len(Emitted) :
          Emitted[k].assignedLoad =
              SumSeq([j \in 1..Len(Emitted[k].breakers) |-> Emitted[k].breakers[j].load])

\* a dedicated transformer and an emitted one with a breaker of several units
C8_Witness ==
    /\ Len(dedicatedTransformers) >= 1
    /\ \E k \in 1..Len(AllBreakersOf(transformers)) :
          /\ Len(AllBreakersOf(transformers)[k].meters) >= 2
          /\ AllBreakersOf(transformers)[k].load > 0

\* ---- C9 ---------------------------------------------------------------------
\* the catalog entries whose safe load covers the load
Fitting(load) ==
    { i \in 1..Len(TRANSFORMER_TYPES) : Amp(TRANSFORMER_TYPES[i].safeLoad) >= load }

\* t is the first fitting entry, or the last entry when none fits
SmallestFit(t, load) ==
    IF Fitting(load) = {}
    THEN t = TRANSFORMER_TYPES[Len(TRANSFORMER_TYPES)]
    ELSE \E i \in Fitting(load) :
            /\ t = TRANSFORMER_TYPES[i]
            /\ \A j \in Fitting(load) : i <= j

\* the load the type of the transformer being filled was selected for
SelectedFor == SumCdl(assignedMeters) + SumCdl(remainingMeters)

\* C9: the type selected for a load is the first catalog entry whose safe
\* load is at least the load, and the last entry when there is none: for the
\* transformer the orchestrator is filling, and for the dedicated
\* transformer of a unit whose capacity class has no type of its own.
C9_SelectsSmallestFit ==
    /\ pc \in {"phase2", "phase3", "finish"} =>
           SmallestFit(transformer.type, SelectedFor)
    /\ \A k \in 1..Len(dedicatedTransformers) :
           LET meter == dedicatedTransformers[k].breakers[1].meters[1]
           IN  meter.capacity \notin {1600, 2500} =>
                   SmallestFit(dedicatedTransformers[k].type, meter.cdl)

\* the orchestrator selected for a load above every safe load
C9_Witness ==
    /\ pc = "phase2"
    /\ Fitting(SelectedFor) = {}
    /\ transformer.type = TRANSFORMER_TYPES[Len(TRANSFORMER_TYPES)]

\* ---- C10 --------------------------------------------------------------------
FilledBreakers == SelectSeq(AllBreakersOf(result.transformers), NonEmpty)

HalvesPlaced(p) ==
    Cardinality({ k \in 1..Len(PlacedIn(result.transformers)) :
                     PlacedIn(result.transformers)[k].id.p = p })

HoldsNoHalf(b) == \A k \in 1..Len(b.meters) : b.meters[k].id.p = 0

\* C10: distributionEntries is the number of non-empty breakers minus the
\* number of placed first halves, which is the number of non-empty breakers
\* without a split half plus the number of split pairs placed.
C10_EntriesCountPairsOnce ==
    pc = "done" =>
        /\ result.summary.distributionEntries = Len(FilledBreakers) - HalvesPlaced(1)
        /\ result.summary.distributionEntries =
               Len(SelectSeq(FilledBreakers, HoldsNoHalf)) + HalvesPlaced(2)

\* two dual-band units on four breakers are two entries
C10_Witness ==
    /\ pc = "done"
    /\ Len(FilledBreakers) = 4
    /\ HalvesPlaced(1) = 2
    /\ result.summary.distributionEntries = 2

\* ---- C11 --------------------------------------------------------------------
\* the breakers in use of the regular packer, in the order they are scanned
InUse == [k \in 1..Len(breakersToUse) |-> transformer.breakers[breakersToUse[k]]]

\* the score of the k-th breaker in use for the unit at the head of the queue
ScoreOf(k) == calculateBreakerScore(InUse[k], Head(regularMeters), InUse, targetNum)

\* the breakers the split phase can still pair for a half of the given load,
\* by position in the transformer
Pairable(halfLoad) ==
    { k \in 1..Len(transformer.breakers) :
         /\ ~transformer.breakers[k].dedicated
         /\ transformer.breakers[k].id \notin breakersAlreadyPaired
         /\ transformer.breakers[k].load + halfLoad <= Amp(MAX_BREAKER_CAPACITY) }

\* the pair score of lines 56-57 for breakers a and b, doubled
PairScoreOf(a, b) ==
    (Amp(100) - Abs(transformer.breakers[a].load - transformer.breakers[b].load))
    + (Amp(200) - transformer.breakers[a].load - transformer.breakers[b].load)

\* pair <<a, b>> is scanned before pair <<c, d>>
ScannedBefore(a, b, c, d) == a < c \/ (a = c /\ b < d)

\* what a step of the regular packer does is fixed by the state: the unit at
\* the head of the queue goes to the first breaker in use of maximal score,
\* and to no breaker when no breaker in use scores above the sentinel
FirstBestBreaker ==
    (pc = "phase3" /\ regularMeters # <<>>) =>
        LET meter == Head(regularMeters)
            best == { k \in 1..Len(InUse) :
                         /\ ScoreOf(k) > 0 - ScoreScale(InUse)
                         /\ \A j \in 1..Len(InUse) :
                               /\ ScoreOf(j) <= ScoreOf(k)
                               /\ j < k => ScoreOf(j) < ScoreOf(k) }
        IN  /\ Cardinality(best) <= 1
            /\ best = {} => transformer' = transformer
            /\ \A k \in best :
                  transformer' = [transformer EXCEPT
                      !.breakers[breakersToUse[k]] = addMeterToBreaker(@, meter)]

\* what a step of the split phase does is fixed by the state: a dual-band
\* unit that is placed goes to the first scanned pair of maximal score
FirstBestPair ==
    (pc = "phase2" /\ transformer' # transformer) =>
        LET free == Pairable(HalfLoad(Head(dualBreakerMeters)))
        IN  \E a \in free : \E b \in free :
               /\ a < b
               /\ Touched = {a, b}
               /\ \A c \in free : \A d \in free :
                     c < d =>
                        /\ PairScoreOf(c, d) <= PairScoreOf(a, b)
                        /\ ScannedBefore(c, d, a, b) =>
                               PairScoreOf(c, d) < PairScoreOf(a, b)

\* C11: the algorithm is deterministic.  The two selections among candidates
\* have one outcome each, fixed by the scan order: of the pairs, and of the
\* breakers in use, that share the maximal score, the first in ascending
\* breaker order is taken, so a step from a given state has one result.
C11_Deterministic == [][FirstBestBreaker /\ FirstBestPair]_vars

\* a dual-band unit took breakers 1 and 2 of four equally empty ones, and a
\* regular unit then took breaker 3 while breaker 4 was as empty
C11_Witness ==
    /\ pc = "phase3"
    /\ Len(transformer.breakers) = 4
    /\ breakersAlreadyPaired = {1, 2}
    /\ breakersToUse = <<3, 4>>
    /\ Len(transformer.breakers[3].meters) = 1
    /\ Len(transformer.breakers[4].meters) = 0

\* ---- C12 --------------------------------------------------------------------
\* the number of emitted non-dedicated transformers holding the unit or its
\* halves
HeldBy(id) ==
    Cardinality({ t \in 1..Len(transformers) :
                     \E k \in 1..Len(PlacedIn(<<transformers[t]>>)) :
                         BaseId(PlacedIn(<<transformers[t]>>)[k]) = id })

\* C12: at the end of every iteration of the orchestrator each unit handed
\* to it is accounted for exactly once: it is in the pool exactly once or it
\* is placed in exactly one emitted transformer, and the pool never holds a
\* unit twice.
C12_AccountedOnce ==
    pc = "while" =>
        \A u \in 1..Len(individualMeters) :
            Occurrences(remainingMeters, individualMeters[u].id)
                + HeldBy(individualMeters[u].id) = 1

\* ---- C13 --------------------------------------------------------------------
\* the breakers in use that can take the unit at the head of the regular
\* queue without exceeding the ceiling
Takers ==
    { k \in 1..Len(InUse) :
         InUse[k].load + Head(regularMeters).cdl <= Amp(MAX_BREAKER_CAPACITY) }

\* C13: a step of the regular packer leaves its unit unplaced only when no
\* breaker in use can take it under the ceiling; when some breaker in use can,
\* the unit is placed, on the first of the breakers of maximal score among
\* those that can take it, whatever the terms of the score come to.
C13_PlacedWhenFits ==
    [][ (pc = "phase3" /\ regularMeters # <<>>) =>
          LET meter == Head(regularMeters)
          IN  IF Takers = {}
              THEN /\ transformer' = transformer
                   /\ unplacedMeters' = Append(unplacedMeters, meter)
              ELSE /\ unplacedMeters' = unplacedMeters
                   /\ \E k \in Takers :
                         /\ transformer' = [transformer EXCEPT
                                !.breakers[breakersToUse[k]] =
                                    addMeterToBreaker(@, meter)]
                         /\ \A j \in Takers :
                               /\ ScoreOf(j) <= ScoreOf(k)
                               /\ j < k => ScoreOf(j) < ScoreOf(k)
       ]_vars

\* a unit went to a later breaker in use because an earlier, loaded one
\* could not take it under the ceiling
C13_Witness ==
    /\ pc \in {"phase3", "finish"}
    /\ \E i \in 1..Len(InUse) : \E j \in 1..Len(InUse) :
          /\ i < j
          /\ Len(InUse[i].meters) > 0
          /\ Len(InUse[j].meters) > 0
          /\ InUse[i].load + InUse[j].meters[Len(InUse[j].meters)].cdl
                 > Amp(MAX_BREAKER_CAPACITY)

\* ---- C14 --------------------------------------------------------------------
\* the pool as the pull loop scans it, and the safe load it pulls up to
SortedPool == SortDesc(remainingMeters)

PullLimit == Amp(selectOptimalTransformer(SumCdl(remainingMeters)).safeLoad)

\* the units of s at the positions of P, in order
Restrict(s, P) == LET in(k) == k \in P
                      pos == SelectSeq([k \in 1..Len(s) |-> k], in)
                  IN  [k \in 1..Len(pos) |-> s[pos[k]]]

\* the demand of the units of the sorted pool at the positions of P before p
DemandBefore(P, p) ==
    SumSeq([q \in 1..Len(SortedPool) |->
               IF q \in P /\ q < p THEN SortedPool[q].cdl ELSE 0])

\* C14: the working set pulled in an iteration is a prefix of the pool
\* sorted by descending demand: pulling stops at the first unit whose addition
\* would exceed the safe load of the selected type, and that unit and every
\* later unit stay in the pool.
C14_PullIsPrefix ==
    [][ pc = "select" =>
          LET k == Len(assignedMeters')
          IN  /\ assignedMeters' = SubSeq(SortedPool, 1, k)
              /\ remainingMeters' = SubSeq(SortedPool, k + 1, Len(SortedPool))
              /\ k < Len(SortedPool) =>
                     SumCdl(assignedMeters') + SortedPool[k + 1].cdl > PullLimit
       ]_vars

\* C14, amended: the pull scans the whole pool in descending order of demand
\* and takes every unit that fits on top of the units taken before it; a unit
\* that does not fit stays in the pool and the scan goes on, so a later,
\* smaller unit can still be pulled.  The working set and the units left in
\* the pool both keep the sorted order.
C14_Amended ==
    [][ pc = "select" =>
          \E P \in SUBSET (1..Len(SortedPool)) :
              /\ \A p \in 1..Len(SortedPool) :
                    p \in P <=> DemandBefore(P, p) + SortedPool[p].cdl <= PullLimit
              /\ assignedMeters' = Restrict(SortedPool, P)
              /\ remainingMeters' = Restrict(SortedPool, (1..Len(SortedPool)) \ P)
       ]_vars

\* the pull has left a unit in the pool and taken a smaller one after it
C14_Witness ==
    /\ pc = "phase2"
    /\ \E r \in 1..Len(remainingMeters) : \E a \in 1..Len(assignedMeters) :
          /\ remainingMeters[r].cdl > assignedMeters[a].cdl
          /\ assignedMeters[a].cdl > 0

\* ---- C15 --------------------------------------------------------------------
\* the transformer carries more than the safe load of its type (line 298)
Overloaded(t) == t.assignedLoad > Amp(t.type.safeLoad)

\* C15: every emitted non-dedicated transformer, and the one being filled,
\* carries at most the safe load of its type, also when the type is the
\* largest one chosen for a pool above every safe load; so the transformers
\* counted in overloadedTransformers are dedicated ones only.
C15_SharedWithinSafeLoad ==
    /\ \A k \in 1..Len(transformers) :
          /\ ~Overloaded(transformers[k])
          /\ SumLoad(transformers[k].breakers) <= Amp(transformers[k].type.safeLoad)
    /\ SumLoad(transformer.breakers) <= Amp(transformer.type.safeLoad)
    /\ pc = "done" =>
          /\ \A k \in 1..Len(result.transformers) :
                Overloaded(result.transformers[k]) => result.transformers[k].isDedicated
          /\ result.summary.overloadedTransformers =
                 Len(SelectSeq(DedicatedOf(result.transformers), Overloaded))

\* the pool was above every safe load: the first transformer is of the
\* largest type, carries load, and a second one took what it left
C15_Witness ==
    /\ pc = "done"
    /\ SumCdl(individualMeters) > Amp(TRANSFORMER_TYPES[Len(TRANSFORMER_TYPES)].safeLoad)
    /\ Len(transformers) >= 2
    /\ transformers[1].type = TRANSFORMER_TYPES[Len(TRANSFORMER_TYPES)]
    /\ transformers[1].assignedLoad > 0

\* ---- C16 --------------------------------------------------------------------
\* the breaker holds a half of a split unit
HoldsHalf(b) == \E k \in 1..Len(b.meters) : b.meters[k].id.p # 0

\* C16: in every non-dedicated transformer, emitted or being filled, a
\* breaker that holds a half of a split unit holds that one half and nothing
\* else, so no breaker takes halves of two units and none takes a half and a
\* regular unit; the breakers the regular packer uses are never breakers
\* consumed by a pair.
C16_PairBreakersExclusive ==
    /\ \A k \in 1..Len(PackedBreakers) :
          HoldsHalf(PackedBreakers[k]) => Len(PackedBreakers[k].meters) = 1
    /\ \A k \in 1..Len(breakersToUse) : breakersToUse[k] \notin breakersAlreadyPaired
    /\ \A k \in 1..Len(transformer.breakers) :
          HoldsHalf(transformer.breakers[k]) <=>
              transformer.breakers[k].id \in breakersAlreadyPaired

\* an emitted transformer with two split pairs and, next to them, a breaker
\* of regular units
C16_Witness ==
    \E t \in 1..Len(transformers) :
        /\ Cardinality({ k \in 1..Len(transformers[t].breakers) :
                            HoldsHalf(transformers[t].breakers[k]) }) = 4
        /\ \E k \in 1..Len(transformers[t].breakers) :
              /\ Len(transformers[t].breakers[k].meters) >= 1
              /\ ~HoldsHalf(transformers[t].breakers[k])

\* ---- C17 --------------------------------------------------------------------
\* the breakers of the transformer being filled that are neither dedicated
\* nor consumed by a pair, by position
Unpaired ==
    { k \in 1..Len(transformer.breakers) :
         /\ ~transformer.breakers[k].dedicated
         /\ transformer.breakers[k].id \notin breakersAlreadyPaired }

\* C17: a step of the split phase leaves its dual-band unit unplaced exactly
\* when half its demand exceeds MAX_BREAKER_CAPACITY or fewer than two
\* breakers are left that are neither dedicated nor consumed by a pair.
\* Otherwise the halves go to the first pair of maximal score among all pairs
\* of those breakers, and both breakers of that pair are empty at that moment:
\* neither the capacity filter nor the score threshold discards such a pair.
C17_SplitPlacedIffPairLeft ==
    [][ (pc = "phase2" /\ dualBreakerMeters # <<>>) =>
          LET meter == Head(dualBreakerMeters)
          IN  IF HalfLoad(meter) > Amp(MAX_BREAKER_CAPACITY)
                 \/ Cardinality(Unpaired) < 2
              THEN /\ transformer' = transformer
                   /\ unplacedMeters' = Append(unplacedMeters, meter)
              ELSE /\ unplacedMeters' = unplacedMeters
                   /\ \E a \in Unpaired : \E b \in Unpaired :
                         /\ a < b
                         /\ Touched = {a, b}
                         /\ transformer.breakers[a].meters = <<>>
                         /\ transformer.breakers[b].meters = <<>>
                         /\ breakersAlreadyPaired' = breakersAlreadyPaired \cup
                                {transformer.breakers[a].id, transformer.breakers[b].id}
                         /\ \A c \in Unpaired : \A d \in Unpaired :
                               c < d =>
                                  /\ PairScoreOf(c, d) <= PairScoreOf(a, b)
                                  /\ ScannedBefore(c, d, a, b) =>
                                         PairScoreOf(c, d) < PairScoreOf(a, b)
       ]_vars

\* a dual-band unit whose halves are under the ceiling was left unplaced
\* because pairs had consumed every breaker
C17_Witness ==
    /\ pc = "phase2"
    /\ dualBreakerMeters = <<>>
    /\ Unpaired = {}
    /\ breakersAlreadyPaired # {}
    /\ \E u \in 1..Len(unplacedMeters) :
          /\ unplacedMeters[u].capacity >= 400
          /\ unplacedMeters[u].cdl > 0
          /\ HalfLoad(unplacedMeters[u]) <= Amp(MAX_BREAKER_CAPACITY)

\* ---- C18 --------------------------------------------------------------------
\* every unit handed to the orchestrator can be placed on an empty
\* transformer of the catalog
AllPlaceable ==
    /\ \A t \in 1..Len(TRANSFORMER_TYPES) : TRANSFORMER_TYPES[t].breakers >= 2
    /\ \A u \in 1..Len(individualMeters) :
          LET m == individualMeters[u]
          IN  /\ m.cdl > 0
              /\ m.capacity < 400 => m.cdl <= Amp(MAX_BREAKER_CAPACITY)
              /\ m.capacity >= 400 => m.cdl <= 2 * Amp(MAX_BREAKER_CAPACITY)
              /\ m.cdl <= Amp(TRANSFORMER_TYPES[Len(TRANSFORMER_TYPES)].safeLoad)

\* C18: when every unit handed to the orchestrator is placeable on its own,
\* every iteration pulls a working set, places at least one unit of it and
\* emits its transformer, and ends with a pool smaller than it began with;
\* at the loop head the iterations made plus the units still in the pool
\* never exceed the number of units, so the loop ends within that many
\* iterations, and at the end every unit is placed in exactly one transformer.
C18_PlaceableInputsFinish ==
    [][ (AllPlaceable /\ pc \notin {"start", "dedicated"}) =>
          /\ pc = "select" => pc' = "phase2"
          /\ pc = "finish" =>
                /\ transformers' = Append(transformers, transformer')
                /\ transformer'.assignedLoad > 0
                /\ Len(PlacedIn(<<transformer'>>)) >= 1
                /\ Len(remainingMeters') < Len(remainingMeters) + Len(assignedMeters)
          /\ pc' = "while" =>
                /\ Len(transformers') + Len(remainingMeters') <= Len(individualMeters)
                /\ Len(remainingMeters') <= MaxPool
          /\ pc' = "done" =>
                /\ remainingMeters' = <<>>
                /\ Len(transformers') <= Len(individualMeters)
                /\ \A u \in 1..Len(individualMeters) :
                      HeldBy(individualMeters[u].id)' = 1
       ]_vars

\* three placeable units were placed in two iterations
C18_Witness ==
    /\ pc = "done"
    /\ AllPlaceable
    /\ Len(individualMeters) >= 3
    /\ Len(transformers) = 2

====
